---- MODULE Spec2Model ----
(***************************************************************************)
(* A model of benchmark.py: the Data split, the metric evaluator, the      *)
(* xgboost hyperparameter configuration, the results table (a pandas       *)
(* DataFrame) and the driver loop of main().                               *)
(*                                                                         *)
(* Floating point values are kept in fixed point: a float v is the integer *)
(* v * Unit (hundredths).  Fractions of the split are kept in tenths.      *)
(* A label vector stands for the rows of a dataset (X and y always have    *)
(* the same rows); the shuffle of train_test_split makes the order of rows *)
(* arbitrary, so a subset is kept as the sorted vector of its labels.      *)
(***************************************************************************)
EXTENDS Integers, Sequences, FiniteSets, TLC

VARIABLES
  args,      \* the parsed command line: [datasets, rows]
  booster,   \* what a trained model of each backend predicts for a test row
  pc,        \* the statement the program is at
  i,         \* position of the for loop of main() in experiments
  exp,       \* the Experiment being run
  alg,       \* the trainer being run: "xgb-cpu-hist" or "xgb-gpu-hist"
  df,        \* the results table
  xy,        \* the label vector y returned by data_func
  data,      \* the Data object of the experiment
  params,    \* the hyperparameters of the trainer
  now,       \* time.time()
  start,     \* run_xgboost: start
  elapsed,   \* run_xgboost: elapsed
  pred,      \* run_xgboost: pred
  metric,    \* run_xgboost: metric
  stdout,    \* what has been printed
  file,      \* table.txt: [writes, content]
  runs,      \* history: the names of the experiments whose run() was called
  measured,  \* history: (algorithm, dataset) -> <<elapsed, metric>> returned by run_xgboost
  active,    \* the xgb.train calls in progress
  exc        \* the uncaught exception, or "None"

vars == <<args, booster, pc, i, exp, alg, df, xy, data, params, now, start,
          elapsed, pred, metric, stdout, file, runs, measured, active, exc>>

----------------------------------------------------------------------------
(* Bounds of the model *)

MaxRows == 24

MaxLabelRows == 4

MaxLabel == 2

MaxTest == 2

MaxClock == 1

MaxDriverRows == 3

----------------------------------------------------------------------------
(* Constants of the program *)

\* 1.0 in fixed point; the threshold 0.5 of eval is Threshold below
Unit == 100

\* pred > 0.5
Threshold == 50

\* train_size=0.6, validation_size=0.2, test_size=0.2, in tenths
TrainSize == 6

ValidationSize == 2

TestSize == 2

\* the 1.0 the fractions are asserted to sum to, in tenths
Whole == 10

NaN == 0 - 1

None == "None"

Algorithms == {"xgb-cpu-hist", "xgb-gpu-hist"}

----------------------------------------------------------------------------
(* Helpers *)

Range(s) == {s[k] : k \in DOMAIN s}

Rep(v, n) == [k \in 1..n |-> v]

RECURSIVE SumTo(_, _)
SumTo(c, l) == IF l < 0 THEN 0 ELSE c[l] + SumTo(c, l - 1)

RECURSIVE SeqOfCounts(_, _)
SeqOfCounts(c, l) ==
  IF l > MaxLabel THEN <<>> ELSE Rep(l, c[l]) \o SeqOfCounts(c, l + 1)

CountOf(y, l) == Cardinality({k \in DOMAIN y : y[k] = l})

Counts(y) == [l \in 0..MaxLabel |-> CountOf(y, l)]

MaxOf(y) == CHOOSE m \in Range(y) : \A v \in Range(y) : v <= m

IsPow2(k) == \E e \in 0..30 : k = 2^e

\* np.sqrt, rounded down to a whole number of hundredths
ISqrt(v) == CHOOSE r \in 0..(Unit * (MaxLabel + 2)) : r * r <= v /\ v < (r + 1) * (r + 1)

Raised(e) == [ok |-> FALSE, exc |-> e]

Ok(v) == [ok |-> TRUE, value |-> v]

----------------------------------------------------------------------------
(* class Data *)

\* ceil(test_size * n) as sklearn computes it in double precision.
\*   test_size = 0.2: the double 0.2 times n rounds to n/5 whenever 5 divides n,
\*   so the result is the exact ceiling of n/5.
\*   test_size = validation_size / train_size = 0.2 / 0.6 is the double
\*   0.33333333333333337, one ulp above the double nearest to 1/3: for n = 3k
\*   the product is k * (1 + 2^-53), which rounds to k only on the tie of k a
\*   power of two and to the next double above k otherwise.
NTest(frac, n) ==
  IF frac = <<ValidationSize, TrainSize>>
  THEN IF n % 3 # 0 THEN n \div 3 + 1
       ELSE IF n = 0 \/ IsPow2(n \div 3) THEN n \div 3 ELSE n \div 3 + 1
  ELSE (frac[1] * n + frac[2] - 1) \div frac[2]

\* train_test_split refuses a split that leaves the train side empty.
SplitRaises(frac, y) == Len(y) - NTest(frac, Len(y)) = 0

\* train_test_split(X, y, test_size=frac, random_state=random_seed): the
\* shuffled rows are cut into n_test test rows and the rest; every choice of
\* rows the permutation can make is an outcome.
train_test_split(y, frac) ==
  LET n_test == NTest(frac, Len(y))
      c      == Counts(y)
      picks  == {t \in [0..MaxLabel -> 0..n_test] :
                   /\ SumTo(t, MaxLabel) = n_test
                   /\ \A l \in 0..MaxLabel : t[l] <= c[l]}
  IN  {[train |-> SeqOfCounts([l \in 0..MaxLabel |-> c[l] - t[l]], 0),
        test  |-> SeqOfCounts(t, 0)] : t \in picks}

\* A mutation of SecondSplit: the validation subset is taken from all rows again.
SecondSplit_FromAll(y, first, name, task, mk) ==
  IF SplitRaises(<<ValidationSize, TrainSize>>, y)
  THEN {Raised("ValueError")}
  ELSE {IF Len(s.train) + Len(s.test) + Len(first.test) = Len(y)
        THEN Ok([name |-> name, task |-> task, metric |-> mk,
                 y_train |-> s.train, y_val |-> s.test, y_test |-> first.test])
        ELSE Raised("AssertionError")
        : s \in train_test_split(y, <<ValidationSize, TrainSize>>)}

\* The second split of Data.__init__ on one outcome of the first.
SecondSplit(y, first, name, task, mk) ==
  IF SplitRaises(<<ValidationSize, TrainSize>>, first.train)
  THEN {Raised("ValueError")}
  ELSE {IF Len(s.train) + Len(s.test) + Len(first.test) = Len(y)
        THEN Ok([name |-> name, task |-> task, metric |-> mk,
                 y_train |-> s.train, y_val |-> s.test, y_test |-> first.test])
        ELSE Raised("AssertionError")
        : s \in train_test_split(first.train, <<ValidationSize, TrainSize>>)}

\* Data.__init__: the set of its outcomes, Ok(Data) or Raised(exception).
DataInit(y, name, task, mk) ==
  IF TrainSize + ValidationSize + TestSize # Whole
  THEN {Raised("AssertionError")}
  ELSE IF SplitRaises(<<TestSize, Whole>>, y)
  THEN {Raised("ValueError")}
  ELSE UNION {SecondSplit(y, first, name, task, mk)
              : first \in train_test_split(y, <<TestSize, Whole>>)}

----------------------------------------------------------------------------
(* eval *)

\* mean_squared_error(y_test, pred), in Unit * Unit
mean_squared_error(y, p) ==
  LET RECURSIVE SqTo(_)
      SqTo(k) == IF k = 0 THEN 0
                 ELSE (y[k] * Unit - p[k]) * (y[k] * Unit - p[k]) + SqTo(k - 1)
  IN  SqTo(Len(y)) \div Len(y)

\* accuracy_score(y_test, pred): the fraction of rows whose prediction equals
\* the label (numpy compares True as 1.0 and False as 0.0)
accuracy_score(y, p) ==
  (Cardinality({k \in DOMAIN y : y[k] * Unit = p[k]}) * Unit) \div Len(y)

\* A mutation of eval: the threshold is applied with >= instead of >.
eval_ThresholdInclusive(d, p) ==
  IF d.metric = "RMSE"
  THEN Ok(ISqrt(mean_squared_error(d.y_test, p)))
  ELSE IF d.metric = "Accuracy"
  THEN LET q == IF d.task = "Classification"
                THEN [k \in DOMAIN p |-> IF p[k] >= Threshold THEN Unit ELSE 0]
                ELSE p
       IN  Ok(accuracy_score(d.y_test, q))
  ELSE Raised("ValueError: Unknown metric")

\* eval(data, pred): Ok(score) or Raised(exception)
eval(d, p) ==
  IF d.metric = "RMSE"
  THEN Ok(ISqrt(mean_squared_error(d.y_test, p)))
  ELSE IF d.metric = "Accuracy"
  THEN LET q == IF d.task = "Classification"
                THEN [k \in DOMAIN p |-> IF p[k] > Threshold THEN Unit ELSE 0]
                ELSE p
       IN  Ok(accuracy_score(d.y_test, q))
  ELSE Raised("ValueError: Unknown metric")

----------------------------------------------------------------------------
(* configure_xgboost *)

\* dict.update: the keys of u replace those of p
Update(p, u) == u @@ p

\* configure_xgboost(data, params): Ok(params) or Raised(exception)
configure_xgboost(d, p) ==
  LET q == Update(p, [max_depth |-> 0, grow_policy |-> "lossguide",
                      max_leaves |-> 2^6])
  IN  IF d.task = "Regression"
      THEN Ok(Update(q, [objective |-> "reg:linear"]))
      ELSE IF d.task = "Multiclass classification"
      THEN Ok(Update(q, [objective |-> "multi:softmax",
                         num_class |-> MaxOf(d.y_test) + 1]))
      ELSE IF d.task = "Classification"
      THEN Ok(Update(q, [objective |-> "binary:logistic"]))
      ELSE Raised("ValueError: Unknown task")

\* train_xgboost_cpu / train_xgboost_gpu: the tree_method each starts from
TreeMethod(a) == IF a = "xgb-cpu-hist" THEN "hist" ELSE "gpu_hist"

----------------------------------------------------------------------------
(* The results table: a pandas DataFrame                                    *)
(*   columns: the column keys in order, index: the row labels in order,     *)
(*   cell: <<row, column>> -> value, multi: the columns are a MultiIndex    *)

EmptyFrame == [columns |-> <<>>, index |-> <<>>, cell |-> <<>>, multi |-> FALSE]

\* the column keys of the table as tuples, whatever the kind of its columns
ColumnKeys(t) ==
  IF t.multi
  THEN [k \in DOMAIN t.columns.level0 |-> <<t.columns.level0[k], t.columns.level1[k]>>]
  ELSE t.columns

Keys(t) == {<<r, c>> : r \in Range(t.index), c \in Range(ColumnKeys(t))}

\* df.insert(len(df.columns), col, v) raises ValueError when col exists
InsertRaises(t, col) == col \in Range(t.columns)

\* df.insert(len(df.columns), col, v): a new last column, v in every row
Insert(t, col, v) ==
  [t EXCEPT !.columns = Append(t.columns, col),
            !.cell = [k \in Keys(t) \cup {<<r, col>> : r \in Range(t.index)} |->
                        IF k[2] = col THEN v ELSE t.cell[k]]]

\* A mutation of AtSet: a new row is added but the value is not stored in it.
AtSet_LostOnEnlarge(t, row, col, v) ==
  LET idx  == IF row \in Range(t.index) THEN t.index ELSE Append(t.index, row)
      cols == IF col \in Range(t.columns) THEN t.columns ELSE Append(t.columns, col)
  IN  [t EXCEPT !.index = idx, !.columns = cols,
                !.cell = [k \in {<<r, c>> : r \in Range(idx), c \in Range(cols)} |->
                            IF k \in Keys(t)
                            THEN (IF k = <<row, col>> THEN v ELSE t.cell[k])
                            ELSE NaN]]

\* df.at[row, col] = v: sets the cell, enlarging the table by a row or a
\* column of NaN when the label is new
AtSet(t, row, col, v) ==
  LET idx  == IF row \in Range(t.index) THEN t.index ELSE Append(t.index, row)
      cols == IF col \in Range(t.columns) THEN t.columns ELSE Append(t.columns, col)
  IN  [t EXCEPT !.index = idx, !.columns = cols,
                !.cell = [k \in {<<r, c>> : r \in Range(idx), c \in Range(cols)} |->
                            IF k = <<row, col>> THEN v
                            ELSE IF k \in Keys(t) THEN t.cell[k] ELSE NaN]]

\* A mutation of TryInsert: the columns are inserted whether or not they exist.
TryInsert_Duplicates(t, time_col, metric_col) ==
  [t EXCEPT !.columns = t.columns \o <<time_col, metric_col>>,
            !.cell = [k \in Keys(t) \cup {<<r, c>> : r \in Range(t.index),
                                           c \in {time_col, metric_col}} |->
                        IF k[2] \in {time_col, metric_col} THEN 0 ELSE t.cell[k]]]

\* The try block of add_data: the second insert is skipped when the first
\* raises, and whatever raises is swallowed.
TryInsert(t, time_col, metric_col) ==
  IF InsertRaises(t, time_col) THEN t
  ELSE LET u == Insert(t, time_col, 0)
       IN  IF InsertRaises(u, metric_col) THEN u ELSE Insert(u, metric_col, 0)

\* add_data(df, algorithm, data, elapsed, metric)
add_data(t, algorithm, d, e, m) ==
  LET time_col   == <<d.name, "Time(s)">>
      metric_col == <<d.name, d.metric>>
  IN  AtSet(AtSet(TryInsert(t, time_col, metric_col), algorithm, time_col, e),
            algorithm, metric_col, m)

\* pd.MultiIndex.from_tuples(df.columns) raises TypeError on no tuples:
\* the number of levels cannot be inferred
FromTuplesRaises(cols) == Len(cols) = 0

\* pd.MultiIndex.from_tuples(df.columns): one array of labels per level
MultiIndex_from_tuples(cols) ==
  [level0 |-> [k \in DOMAIN cols |-> cols[k][1]],
   level1 |-> [k \in DOMAIN cols |-> cols[k][2]]]

\* df.to_latex(): the header of column keys, then one line per row
to_latex(t) ==
  <<ColumnKeys(t)>> \o
  [k \in DOMAIN t.index |->
     <<t.index[k]>> \o [c \in DOMAIN ColumnKeys(t) |-> t.cell[<<t.index[k], ColumnKeys(t)[c]>>]]]

----------------------------------------------------------------------------
(* Experiment and the registry *)

Experiment(data_func, name, task, mk) ==
  [data_func |-> data_func, name |-> name, task |-> task, metric |-> mk]

experiments ==
  << Experiment("get_year", "YearPredictionMSD", "Regression", "RMSE"),
     Experiment("get_synthetic_regression", "Synthetic", "Regression", "RMSE"),
     Experiment("get_higgs", "Higgs", "Classification", "Accuracy"),
     Experiment("get_cover_type", "Cover Type", "Multiclass classification", "Accuracy"),
     Experiment("get_bosch", "Bosch", "Classification", "Accuracy"),
     Experiment("get_airline", "Airline", "Classification", "Accuracy") >>

\* The characters of a registry name: Python strings are sequences of
\* characters, and the filter of main() is a test on characters.
Chars(name) ==
  IF name = "YearPredictionMSD" THEN
    <<"Y", "e", "a", "r", "P", "r", "e", "d", "i", "c", "t", "i", "o", "n", "M", "S", "D">>
  ELSE IF name = "Synthetic" THEN
    <<"S", "y", "n", "t", "h", "e", "t", "i", "c">>
  ELSE IF name = "Higgs" THEN
    <<"H", "i", "g", "g", "s">>
  ELSE IF name = "Cover Type" THEN
    <<"C", "o", "v", "e", "r", " ", "T", "y", "p", "e">>
  ELSE IF name = "Bosch" THEN
    <<"B", "o", "s", "c", "h">>
  ELSE IF name = "Airline" THEN
    <<"A", "i", "r", "l", "i", "n", "e">>
  ELSE <<>>

\* A mutation of IsSubstring: s is looked for at the start of t only.
IsSubstring_AtStart(s, t) ==
  Len(s) <= Len(t) /\ SubSeq(t, 1, Len(s)) = s

\* s in t, for Python strings
IsSubstring(s, t) ==
  \E k \in 0..(Len(t) - Len(s)) : SubSeq(t, k + 1, k + Len(s)) = s

\* all_dataset_names of main(): every name followed by a comma
RECURSIVE AllDatasetNamesFrom(_)
AllDatasetNamesFrom(k) ==
  IF k > Len(experiments) THEN <<>>
  ELSE Chars(experiments[k].name) \o <<",">> \o AllDatasetNamesFrom(k + 1)

all_dataset_names == AllDatasetNamesFrom(1)

\* The data a provider returns for num_rows=rows: that many rows.  The model's
\* providers give every row the label 0.
data_func(e, rows) == Rep(0, rows)

\* A mutation of TrainerOrder: the GPU trainer is called first.
TrainerOrder_Swapped == <<"xgb-gpu-hist", "xgb-cpu-hist">>

\* Experiment.run: the CPU trainer, then the GPU trainer
TrainerOrder == <<"xgb-cpu-hist", "xgb-gpu-hist">>

----------------------------------------------------------------------------
(* The inputs of the model *)

\* The names at the positions L of the registry, joined by commas
RECURSIVE Join(_)
Join(L) ==
  IF Len(L) = 0 THEN <<>>
  ELSE IF Len(L) = 1 THEN Chars(experiments[L[1]].name)
  ELSE Chars(experiments[L[1]].name) \o <<",">> \o Join(Tail(L))

\* The positions of S in increasing order
RECURSIVE Ascending(_)
Ascending(S) ==
  IF S = {} THEN <<>>
  ELSE LET m == CHOOSE x \in S : \A z \in S : x <= z
       IN  <<m>> \o Ascending(S \ {m})

Reverse(L) == [k \in DOMAIN L |-> L[Len(L) + 1 - k]]

\* The lists of registry names a user passes: every set of names in registry
\* order, and all names in the opposite order
FilterLists ==
  {Ascending(S) : S \in SUBSET DOMAIN experiments}
    \cup {Reverse(Ascending(DOMAIN experiments))}

\* Values of --datasets that are no list of registry names
OtherFilters ==
  { <<"h", "i", "g", "g", "s">>,
    <<"C", "o", "v", "e", "r">>,
    <<"H", "i", "g", "g", "s", "i", "n", "o">>,
    <<"B", "o", "s", "c", "h", ";", "A", "i", "r", "l", "i", "n", "e">> }

Filters == {all_dataset_names} \cup {Join(L) : L \in FilterLists} \cup OtherFilters

\* What a model predicts for a test row, in fixed point
BoosterPreds == {0, Unit}

TaskKinds == {"Regression", "Classification", "Multiclass classification", "Ranking"}

MetricKinds == {"RMSE", "Accuracy", "AUC"}

Labels == 0..MaxLabel

PredVals == {0, Threshold - 1, Threshold, Threshold + 1, Unit, 2 * Unit}

\* Label vectors: every multiset of labels on up to MaxLabelRows rows, and
\* up to MaxRows rows of one label
Datasets ==
  {SeqOfCounts(c, 0) : c \in {d \in [Labels -> 0..MaxLabelRows] :
                                  SumTo(d, MaxLabel) <= MaxLabelRows}}
    \cup {Rep(0, n) : n \in 0..MaxRows}

----------------------------------------------------------------------------
(* The driver: main(), Experiment.run, train_xgboost_*, run_xgboost *)

\* A mutation of Raise: the exception is swallowed and the loop goes on
\* with the next experiment.
Raise_Swallowed(e) ==
  /\ exc' = e
  /\ pc' = "loop"
  /\ i' = i + 1
  /\ active' = {}
  /\ UNCHANGED <<args, booster, exp, alg, df, xy, data, params, now, start,
                 elapsed, pred, metric, stdout, file, runs, measured>>

\* An exception nothing catches: it leaves main() and ends the program.
Raise(e) ==
  /\ exc' = e
  /\ pc' = "raised"
  /\ active' = {}
  /\ UNCHANGED <<args, booster, i, exp, alg, df, xy, data, params, now, start,
                 elapsed, pred, metric, stdout, file, runs, measured>>

\* for exp in experiments: if exp.name in args.datasets: exp.run(df, args)
ForLoop ==
  /\ pc = "loop"
  /\ IF i > Len(experiments)
     THEN /\ pc' = "from_tuples"
          /\ UNCHANGED <<i, exp, runs>>
     ELSE IF IsSubstring(Chars(experiments[i].name), args.datasets)
     THEN /\ pc' = "run"
          /\ exp' = experiments[i]
          /\ runs' = Append(runs, experiments[i].name)
          /\ UNCHANGED i
     ELSE /\ i' = i + 1
          /\ UNCHANGED <<pc, exp, runs>>
  /\ UNCHANGED <<args, booster, alg, df, xy, data, params, now, start, elapsed,
                 pred, metric, stdout, file, measured, active, exc>>

\* X, y = self.data_func(num_rows=args.rows)
LoadData ==
  /\ pc = "run"
  /\ \/ /\ xy' = data_func(exp, args.rows)
        /\ pc' = "split"
        /\ UNCHANGED <<args, booster, i, exp, alg, df, data, params, now, start,
                       elapsed, pred, metric, stdout, file, runs, measured,
                       active, exc>>
     \/ Raise("IOError")

\* data = Data(X, y, self.name, self.task, self.metric)
Construct ==
  /\ pc = "split"
  /\ \E o \in DataInit(xy, exp.name, exp.task, exp.metric) :
       IF o.ok
       THEN /\ data' = o.value
            /\ alg' = TrainerOrder[1]
            /\ pc' = "configure"
            /\ UNCHANGED <<args, booster, i, exp, df, xy, params, now, start,
                           elapsed, pred, metric, stdout, file, runs, measured,
                           active, exc>>
       ELSE Raise(o.exc)

\* params = {'tree_method': ...}; configure_xgboost(data, params)
Configure ==
  /\ pc = "configure"
  /\ LET o == configure_xgboost(data, [tree_method |-> TreeMethod(alg)])
     IN  IF o.ok
         THEN /\ params' = o.value
              /\ pc' = "train"
              /\ UNCHANGED <<args, booster, i, exp, alg, df, xy, data, now, start,
                             elapsed, pred, metric, stdout, file, runs, measured,
                             active, exc>>
         ELSE Raise(o.exc)

\* run_xgboost: start = time.time(); xgb.train(...) is entered
TrainStart ==
  /\ pc = "train"
  /\ start' = now
  /\ active' = active \cup {alg}
  /\ pc' = "training"
  /\ UNCHANGED <<args, booster, i, exp, alg, df, xy, data, params, now, elapsed,
                 pred, metric, stdout, file, runs, measured, exc>>

\* run_xgboost: xgb.train(...) returns after some time, or raises;
\* elapsed = time.time() - start
TrainEnd ==
  /\ pc = "training"
  /\ \/ \E t \in now..MaxClock :
          /\ now' = t
          /\ elapsed' = t - start
          /\ active' = active \ {alg}
          /\ pc' = "predict"
          /\ UNCHANGED <<args, booster, i, exp, alg, df, xy, data, params, start,
                         pred, metric, stdout, file, runs, measured, exc>>
     \/ Raise("XGBoostError")

\* run_xgboost: pred = bst.predict(dtest)
Predict ==
  /\ pc = "predict"
  /\ \/ /\ pred' = Rep(booster[alg], Len(data.y_test))
        /\ pc' = "eval"
        /\ UNCHANGED <<args, booster, i, exp, alg, df, xy, data, params, now,
                       start, elapsed, metric, stdout, file, runs, measured,
                       active, exc>>
     \/ Raise("XGBoostError")

\* run_xgboost: metric = eval(data, pred)
Evaluate ==
  /\ pc = "eval"
  /\ LET o == eval(data, pred)
     IN  IF o.ok
         THEN /\ metric' = o.value
              /\ pc' = "add_data"
              /\ UNCHANGED <<args, booster, i, exp, alg, df, xy, data, params, now,
                             start, elapsed, pred, stdout, file, runs, measured,
                             active, exc>>
         ELSE Raise(o.exc)

\* add_data(df, 'xgb-...-hist', data, elapsed, metric), and the return of the
\* trainer: to the next trainer of Experiment.run, or to the loop of main()
AddData ==
  /\ pc = "add_data"
  /\ df' = add_data(df, alg, data, elapsed, metric)
  /\ measured' = (<<alg, data.name>> :> <<elapsed, metric>>) @@ measured
  /\ params' = None /\ start' = None /\ elapsed' = None
  /\ pred' = None /\ metric' = None
  /\ IF alg = TrainerOrder[1]
     THEN /\ alg' = TrainerOrder[2]
          /\ pc' = "configure"
          /\ UNCHANGED <<i, exp, xy, data>>
     ELSE /\ alg' = None /\ exp' = None /\ xy' = None /\ data' = None
          /\ i' = i + 1
          /\ pc' = "loop"
  /\ UNCHANGED <<args, booster, now, stdout, file, runs, active, exc>>

\* df.columns = pd.MultiIndex.from_tuples(df.columns)
FromTuples ==
  /\ pc = "from_tuples"
  /\ IF FromTuplesRaises(df.columns)
     THEN Raise("TypeError")
     ELSE /\ df' = [df EXCEPT !.columns = MultiIndex_from_tuples(df.columns),
                              !.multi = TRUE]
          /\ pc' = "print"
          /\ UNCHANGED <<args, booster, i, exp, alg, xy, data, params, now, start,
                         elapsed, pred, metric, stdout, file, runs, measured,
                         active, exc>>

\* print(df)
PrintTable ==
  /\ pc = "print"
  /\ stdout' = Append(stdout, df)
  /\ pc' = "write"
  /\ UNCHANGED <<args, booster, i, exp, alg, df, xy, data, params, now, start,
                 elapsed, pred, metric, file, runs, measured, active, exc>>

\* with open("table.txt", "w") as file: file.write(df.to_latex())
WriteTable ==
  /\ pc = "write"
  /\ file' = [writes |-> file.writes + 1, content |-> to_latex(df)]
  /\ pc' = "written"
  /\ UNCHANGED <<args, booster, i, exp, alg, df, xy, data, params, now, start,
                 elapsed, pred, metric, stdout, runs, measured, active, exc>>

\* print("Results written to: "+filename)
PrintWritten ==
  /\ pc = "written"
  /\ stdout' = Append(stdout, "Results written to: table.txt")
  /\ pc' = "done"
  /\ UNCHANGED <<args, booster, i, exp, alg, df, xy, data, params, now, start,
                 elapsed, pred, metric, file, runs, measured, active, exc>>

\* What no run has set yet
Fresh ==
  /\ df = EmptyFrame
  /\ params = None /\ start = None /\ elapsed = None /\ metric = None
  /\ now = 0
  /\ stdout = <<>>
  /\ file = [writes |-> 0, content |-> None]
  /\ runs = <<>>
  /\ measured = <<>>
  /\ active = {}
  /\ exc = None

\* main() after parse_args() and df = pd.DataFrame()
Init ==
  /\ args \in [datasets : Filters, rows : 0..MaxDriverRows]
  /\ booster \in [Algorithms -> BoosterPreds]
  /\ pc = "loop"
  /\ i = 1
  /\ exp = None /\ alg = None /\ xy = None /\ data = None /\ pred = None
  /\ Fresh

Next ==
  \/ ForLoop \/ LoadData \/ Construct \/ Configure \/ TrainStart \/ TrainEnd
  \/ Predict \/ Evaluate \/ AddData \/ FromTuples \/ PrintTable \/ WriteTable
  \/ PrintWritten

Spec == Init /\ [][Next]_vars

----------------------------------------------------------------------------
(* Data(X, y, ...) and configure_xgboost on every dataset of Datasets *)

InitData ==
  /\ args = [datasets |-> <<>>, rows |-> 0]
  /\ booster = [a \in Algorithms |-> 0]
  /\ pc = "split"
  /\ i = 1
  /\ exp \in {Experiment("get", "Synthetic", t, "Accuracy") : t \in TaskKinds}
  /\ alg = None /\ data = None /\ pred = None
  /\ xy \in Datasets
  /\ Fresh

NextData == Construct \/ Configure

SpecData == InitData /\ [][NextData]_vars

----------------------------------------------------------------------------
(* eval(data, pred) on every test subset and prediction vector *)

InitEval ==
  /\ args = [datasets |-> <<>>, rows |-> 0]
  /\ booster = [a \in Algorithms |-> 0]
  /\ pc = "eval"
  /\ i = 1
  /\ exp = None /\ alg = None /\ xy = None
  /\ \E t \in TaskKinds, mk \in MetricKinds, n \in 1..MaxTest :
       /\ pred \in [1..n -> PredVals]
       /\ \E y \in [1..n -> Labels] :
            data = [name |-> "Synthetic", task |-> t, metric |-> mk,
                    y_train |-> <<>>, y_val |-> <<>>, y_test |-> y]
  /\ Fresh

NextEval == Evaluate

SpecEval == InitEval /\ [][NextEval]_vars

----------------------------------------------------------------------------
(* Properties *)

Rows(d) == Len(d.y_train) + Len(d.y_val) + Len(d.y_test)

\* Data.__init__ raised
ConstructFailed == exc \in {"ValueError", "AssertionError"}

\* Data.__init__ returned
Constructed == pc \notin {"loop", "run", "split"} /\ ~ConstructFailed

\* C1, as claimed: for every row count R the Data split succeeds and its
\* three subsets hold R rows together.
C1_EveryRowCountSplits ==
  (pc # "split") => (Constructed /\ Rows(data) = Len(xy))

\* C1, amended: for every row count R >= 3 the Data split succeeds, and for
\* R < 3 it raises (a subset would be empty); whenever it succeeds the three
\* subsets hold R rows together, and are the rows of the dataset: no row is
\* dropped or counted twice.
C1_SplitKeepsEveryRow ==
  (pc # "split") =>
     /\ Constructed <=> Len(xy) >= 3
     /\ Constructed =>
          /\ Rows(data) = Len(xy)
          /\ \A l \in Labels :
               CountOf(data.y_train, l) + CountOf(data.y_val, l)
                 + CountOf(data.y_test, l) = CountOf(xy, l)
          /\ Len(data.y_test) = NTest(<<TestSize, Whole>>, Len(xy))

C1_Witness ==
  /\ pc = "configure"
  /\ Len(xy) = 10
  /\ Len(data.y_test) = 2 /\ Len(data.y_val) = 3 /\ Len(data.y_train) = 5

\* C2: the validation subset holds the validation fraction of the original
\* rows: as many rows as the test subset, up to one row of rounding, and the
\* train subset holds the train fraction of the rows, up to one row.
C2_ValidationFractionOfAll ==
  Constructed =>
     /\ Len(data.y_val) - Len(data.y_test) \in {0 - 1, 0, 1}
     /\ Whole * Len(data.y_train) >= TrainSize * Len(xy) - Whole
     /\ Whole * Len(data.y_train) <= TrainSize * Len(xy) + Whole

\* C9: for a multiclass task every label of the train, validation and test
\* subsets is below the class count configure_xgboost sets.
C9_ClassCountCoversLabels ==
  (pc = "train" /\ data.task = "Multiclass classification") =>
     \A l \in Range(data.y_train) \cup Range(data.y_val) \cup Range(data.y_test) :
        l < params.num_class

\* The class a prediction counts as under the 0.5 threshold
ThresholdClass(v) == IF v <= Threshold THEN 0 ELSE 1

\* C6: with metric Accuracy the predictions are thresholded at 0.5 exactly
\* when the task is Classification (above 0.5 is class 1, at or below 0.5 is
\* class 0); for every other task the prediction is compared to the label
\* unchanged; the score is the fraction of matching rows, 1.0 when all match.
C6_AccuracyThreshold ==
  (pc = "add_data" /\ data.metric = "Accuracy") =>
     LET y == data.y_test
         hits == IF data.task = "Classification"
                 THEN {k \in DOMAIN y : y[k] = ThresholdClass(pred[k])}
                 ELSE {k \in DOMAIN y : y[k] * Unit = pred[k]}
     IN  /\ metric = (Cardinality(hits) * Unit) \div Len(y)
         /\ (hits = DOMAIN y) => metric = Unit

C6_Witness ==
  /\ pc = "add_data"
  /\ data.metric = "Accuracy" /\ data.task = "Classification"
  /\ data.y_test = <<0, 1>>
  /\ pred = <<Threshold - 1, Threshold + 1>>
  /\ metric = Unit

NoDuplicates(q) == \A a, b \in DOMAIN q : q[a] = q[b] => a = b

\* C3: add_data leaves a row named by the algorithm whose Time(s) and metric
\* cells of the dataset hold elapsed and metric; no column is in the table
\* twice, an insertion under a dataset already present adds no column, and
\* add_data raises nothing.
C3_AddDataSetsCells ==
  [][(pc = "add_data") =>
       /\ alg \in Range(df'.index)
       /\ df'.cell[<<alg, <<data.name, "Time(s)">>>>] = elapsed
       /\ df'.cell[<<alg, <<data.name, data.metric>>>>] = metric
       /\ NoDuplicates(df'.columns)
       /\ (<<data.name, "Time(s)">> \in Range(df.columns)) => df'.columns = df.columns
       /\ exc' = None /\ pc' # "raised"]_vars

C3_Witness ==
  /\ pc = "loop"
  /\ df.index = <<"xgb-cpu-hist", "xgb-gpu-hist">>
  /\ Len(df.columns) = 2
  /\ now = 1

NamesOf(L) == [k \in DOMAIN L |-> experiments[L[k]].name]

\* C4: for a filter that is a comma-joined list of registry names the
\* experiments run are exactly the listed ones, each once, and no other; with
\* the default filter every experiment of the registry runs once.
C4_FilterSelectsListed ==
  /\ \A L \in FilterLists :
       args.datasets = Join(L) =>
          /\ Range(runs) \subseteq Range(NamesOf(L))
          /\ NoDuplicates(runs)
          /\ (i > Len(experiments)) => Range(runs) = Range(NamesOf(L))
  /\ (args.datasets = all_dataset_names /\ i > Len(experiments)) =>
        runs = NamesOf(Ascending(DOMAIN experiments))

C4_Witness ==
  /\ pc = "done"
  /\ args.datasets = Join(<<3, 5>>)
  /\ runs = <<"Higgs", "Bosch">>

MetricOf(name) ==
  (CHOOSE e \in Range(experiments) : e.name = name).metric

RECURSIVE ColumnsFor(_)
ColumnsFor(names) ==
  IF names = <<>> THEN <<>>
  ELSE <<<<Head(names), "Time(s)">>, <<Head(names), MetricOf(Head(names))>>>>
         \o ColumnsFor(Tail(names))

\* The table at the end of a run in which every trainer succeeded
FinalTable ==
  (pc = "done") =>
     /\ Len(runs) >= 1
     /\ df.index = TrainerOrder
     /\ ColumnKeys(df) = ColumnsFor(runs)
     /\ \A a \in Algorithms, n \in Range(runs) :
          /\ df.cell[<<a, <<n, "Time(s)">>>>] = measured[<<a, n>>][1]
          /\ df.cell[<<a, <<n, MetricOf(n)>>>>] = measured[<<a, n>>][2]
     /\ file.writes = 1
     /\ file.content = to_latex(df)

\* C5: a run of k >= 1 experiments whose trainers all succeed ends with the
\* two rows xgb-cpu-hist and xgb-gpu-hist and the two columns of every
\* selected dataset, every cell holding the value measured for it; the table
\* never loses a row or a column; table.txt is written once, after the last
\* selected experiment.
C5_TableComplete ==
  [][/\ FinalTable'
     /\ Range(df.index) \subseteq Range(df'.index)
     /\ Range(ColumnKeys(df)) \subseteq Range(ColumnKeys(df'))
     /\ file'.writes <= 1
     /\ (file'.writes # file.writes) => (i > Len(experiments) /\ pc = "write")]_vars

C5_Witness ==
  /\ pc = "done"
  /\ Len(runs) = Len(experiments)
  /\ df.cell[<<"xgb-gpu-hist", <<"Airline", "Time(s)">>>>] = 1

\* C7: an exception ends the run where it is raised: no step follows it, the
\* step that raises changes neither the table nor its history, nothing has
\* been printed and table.txt has not been written.
C7_FailureEndsRun ==
  [][/\ exc = None
     /\ (exc' # None) =>
          /\ pc' = "raised"
          /\ df' = df /\ measured' = measured /\ runs' = runs
          /\ stdout' = <<>>
          /\ file'.writes = 0]_vars

C7_Witness ==
  /\ pc = "raised"
  /\ exc = "XGBoostError"
  /\ alg = "xgb-gpu-hist"
  /\ df.index = <<"xgb-cpu-hist">>
  /\ Len(df.columns) = 2
  /\ runs = <<"Higgs">>

Position(name) == CHOOSE k \in DOMAIN experiments : experiments[k].name = name

\* What holds in every state of a sequential run
Sequential ==
  /\ Cardinality(active) <= 1
  /\ \A a, b \in DOMAIN runs : a < b => Position(runs[a]) < Position(runs[b])
  /\ (pc = "run") =>
        \A k \in 1..(Len(runs) - 1), a \in Algorithms : <<a, runs[k]>> \in DOMAIN measured
  /\ (alg = "xgb-gpu-hist") =>
        /\ <<"xgb-cpu-hist", exp.name>> \in DOMAIN measured
        /\ df.cell[<<"xgb-cpu-hist", <<exp.name, "Time(s)">>>>]
             = measured[<<"xgb-cpu-hist", exp.name>>][1]
        /\ df.cell[<<"xgb-cpu-hist", <<exp.name, exp.metric>>>>]
             = measured[<<"xgb-cpu-hist", exp.name>>][2]
  /\ (alg = "xgb-cpu-hist") =>
        \A a \in Algorithms : <<a, exp.name>> \notin DOMAIN measured

\* C8: experiments run one at a time in registry order; the CPU trainer has
\* inserted its result before the GPU trainer configures or trains; no two
\* training calls are in progress; both trainers use the same split.
C8_SequentialRun ==
  [][/\ Sequential'
     /\ (alg \in Algorithms /\ alg' \in Algorithms) => data' = data]_vars

C8_Witness ==
  /\ pc = "training"
  /\ alg = "xgb-gpu-hist"
  /\ active = {"xgb-gpu-hist"}

\* C10: for every value of --datasets, one that selects no experiment
\* included, the driver gets past its loop to print the table and write
\* table.txt: nothing is raised once the loop is over.
C10_AlwaysWritesTable ==
  (i > Len(experiments)) => exc = None

====
